---- MODULE Spec2Model ----
(***************************************************************************)
(* State-machine model of the SVG viewer in src/js/index.js.               *)
(*                                                                         *)
(* Numbers are exact rationals <<n, d>> (d > 0, lowest terms) extended     *)
(* with the two IEEE values the handlers can produce: +Infinity <<1, 0>>   *)
(* and NaN <<0, 0>>.  Strings that the code inspects (attribute names and  *)
(* values) are sequences of one-character strings.  A DOM element is a     *)
(* record [tag, attrs, kids]; attrs is the ordered attribute list.         *)
(***************************************************************************)
EXTENDS Integers, Sequences, FiniteSets, TLC

VARIABLES state, page, tasks, used, limit, hist, sanIn, sanOut

vars == <<state, page, tasks, used, limit, hist, sanIn, sanOut>>

\* Bounds of the exploration: pointer, wheel, zoom and key events of a
\* session that is about interaction (MaxViewOps) or about loading
\* (MaxLoadViewOps); texts typed by the user; handlers started that reach an
\* await; URL loads of a session that is only about their race.
MaxViewOps == 4
MaxLoadViewOps == 1
MaxEdits == 1
MaxTasks == 1
MaxUrlLoads == 2
\* Elements and attributes of a document built for the sanitizer alone.
MaxNodes == 3
MaxAttrs == 2

\* null / undefined / an empty container.
Null == [null |-> TRUE]

(***************************************************************************)
(* Numbers                                                                 *)
(***************************************************************************)
Abs(n) == IF n < 0 THEN -n ELSE n

RECURSIVE GCD(_, _)
GCD(a, b) == IF b = 0 THEN a ELSE GCD(b, a % b)

NaN == <<0, 0>>
Infinity == <<1, 0>>

Sign(n) == IF n > 0 THEN 1 ELSE IF n < 0 THEN -1 ELSE 0

\* n / d as a number: 0/0 is NaN, n/0 is +-Infinity.
Quot(n, d) ==
  IF d = 0 THEN <<Sign(n), 0>>
  ELSE LET g == GCD(Abs(n), Abs(d))
       IN  IF d < 0 THEN <<(0 - n) \div g, (0 - d) \div g>> ELSE <<n \div g, d \div g>>

Num(n) == <<n, 1>>
IsNaN(x) == x = NaN
IsFinite(x) == x[2] # 0

Mul(x, y) ==
  IF IsNaN(x) \/ IsNaN(y) THEN NaN
  ELSE IF ~IsFinite(x) \/ ~IsFinite(y) THEN <<Sign(x[1] * y[1]), 0>>
  ELSE LET g1 == GCD(Abs(x[1]), y[2])
           g2 == GCD(Abs(y[1]), x[2])
       IN  Quot((x[1] \div g1) * (y[1] \div g2), (x[2] \div g2) * (y[2] \div g1))

\* x - y and x + y; the handlers only subtract and add finite numbers or NaN.
Sub(x, y) ==
  IF ~IsFinite(x) \/ ~IsFinite(y) THEN NaN
  ELSE LET g == GCD(x[2], y[2])
       IN  Quot(x[1] * (y[2] \div g) - y[1] * (x[2] \div g), (x[2] \div g) * y[2])

Add(x, y) == Sub(x, <<0 - y[1], y[2]>>)

\* x < y for numbers that are not NaN.
Less(x, y) ==
  IF IsFinite(x) /\ IsFinite(y)
  THEN LET g == GCD(x[2], y[2]) IN x[1] * (y[2] \div g) < y[1] * (x[2] \div g)
  ELSE x[1] * y[2] < y[1] * x[2]

\* Math.min / Math.max: NaN if either argument is NaN.
MathMin(x, y) == IF IsNaN(x) \/ IsNaN(y) THEN NaN ELSE IF Less(y, x) THEN y ELSE x
MathMax(x, y) == IF IsNaN(x) \/ IsNaN(y) THEN NaN ELSE IF Less(x, y) THEN y ELSE x

Zero == Num(0)
One == Num(1)
minScale == <<1, 10>>
maxScale == <<20, 1>>
ZoomStep == <<6, 5>>
WheelStep == <<27, 25>>

(***************************************************************************)
(* Strings                                                                 *)
(***************************************************************************)
UpperChars == <<"A", "B", "C", "D", "E", "F", "G", "H", "I", "J", "K", "L", "M",
                "N", "O", "P", "Q", "R", "S", "T", "U", "V", "W", "X", "Y", "Z">>
LowerChars == <<"a", "b", "c", "d", "e", "f", "g", "h", "i", "j", "k", "l", "m",
                "n", "o", "p", "q", "r", "s", "t", "u", "v", "w", "x", "y", "z">>
WhiteChars == {" ", "\t", "\n"}
DigitChars == <<"0", "1", "2", "3", "4", "5", "6", "7", "8", "9">>

\* String.prototype.toLowerCase, one character at a time.
LowerOf == [c \in {UpperChars[i] : i \in 1..26} |->
              LowerChars[CHOOSE i \in 1..26 : UpperChars[i] = c]]

ToLowerChar(c) == IF c \in DOMAIN LowerOf THEN LowerOf[c] ELSE c

ToLowerCase(s) == [i \in 1..Len(s) |-> ToLowerChar(s[i])]

RECURSIVE TrimStart(_)
TrimStart(s) == IF s # <<>> /\ Head(s) \in WhiteChars THEN TrimStart(Tail(s)) ELSE s

RECURSIVE TrimEnd(_)
TrimEnd(s) ==
  IF s # <<>> /\ s[Len(s)] \in WhiteChars THEN TrimEnd(SubSeq(s, 1, Len(s) - 1)) ELSE s

Trim(s) == TrimEnd(TrimStart(s))

StartsWith(s, p) == Len(s) >= Len(p) /\ SubSeq(s, 1, Len(p)) = p

JavascriptColon == <<"j", "a", "v", "a", "s", "c", "r", "i", "p", "t", ":">>
DataColon == <<"d", "a", "t", "a", ":">>

\* /^on/i.test(name)
OnPattern(name) == StartsWith(ToLowerCase(name), <<"o", "n">>)

\* attr.value && ... attr.value.trim().toLowerCase().startsWith("javascript:")
JavascriptValue(value) ==
  value # <<>> /\ StartsWith(ToLowerCase(Trim(value)), JavascriptColon)

IsDigit(c) == \E i \in 1..10 : DigitChars[i] = c
DigitValue(c) == (CHOOSE i \in 1..10 : DigitChars[i] = c) - 1

RECURSIVE DigitsValue(_, _)
DigitsValue(s, acc) ==
  IF s # <<>> /\ IsDigit(Head(s)) THEN DigitsValue(Tail(s), 10 * acc + DigitValue(Head(s)))
  ELSE acc

\* parseFloat on strings made of optional leading white space, an optional
\* sign, decimal digits and an arbitrary tail: NaN when no digit starts the
\* number, else the integer the leading digits denote.
ParseFloat(s) ==
  LET t == TrimStart(s)
      neg == t # <<>> /\ Head(t) = "-"
      u == IF t # <<>> /\ Head(t) \in {"-", "+"} THEN Tail(t) ELSE t
  IN  IF u = <<>> \/ ~IsDigit(Head(u)) THEN NaN
      ELSE Num(IF neg THEN 0 - DigitsValue(u, 0) ELSE DigitsValue(u, 0))

RECURSIVE NatToString(_)
NatToString(n) ==
  IF n < 10 THEN <<DigitChars[n + 1]>>
  ELSE NatToString(n \div 10) \o <<DigitChars[(n % 10) + 1]>>

\* `${x}` for an integral number x.
NumberToString(x) ==
  IF x[1] < 0 THEN <<"-">> \o NatToString(0 - x[1]) ELSE NatToString(x[1])

(***************************************************************************)
(* DOM: elements, attributes, documents, text                              *)
(***************************************************************************)
Attr(name, value) == [name |-> name, value |-> value]
Element(tag, attrs, kids) == [tag |-> tag, attrs |-> attrs, kids |-> kids]

\* getAttribute's null.
NoValue == <<"null">>

HasAttribute(el, name) == \E i \in 1..Len(el.attrs) : el.attrs[i].name = name

GetAttribute(el, name) ==
  IF HasAttribute(el, name)
  THEN el.attrs[CHOOSE i \in 1..Len(el.attrs) : el.attrs[i].name = name].value
  ELSE NoValue

\* JavaScript truthiness of a string or null.
Truthy(v) == v # NoValue /\ v # <<>>

RemoveAttribute(attrs, name) == SelectSeq(attrs, LAMBDA a : a.name # name)

SetAttribute(el, name, value) ==
  IF HasAttribute(el, name)
  THEN [el EXCEPT !.attrs = [i \in 1..Len(el.attrs) |->
                               IF el.attrs[i].name = name THEN Attr(name, value)
                               ELSE el.attrs[i]]]
  ELSE [el EXCEPT !.attrs = Append(el.attrs, Attr(name, value))]

\* A document is its documentElement, or Null once that element was removed.
Document(root) == [root |-> root]

\* Text the viewer is handed: well-formed XML (the tree it denotes), text
\* no XML parser accepts (with or without the marker "<svg" in it), a URL,
\* white space only, or nothing.
XmlText(root) == [k |-> "xml", root |-> root]
JunkText(marker) == [k |-> "junk", marker |-> marker]
UrlText(u) == [k |-> "url", u |-> u]
BlankText == [k |-> "blank"]
EmptyText == [k |-> "empty"]

TrimText(t) == IF t.k = "blank" THEN EmptyText ELSE t

RECURSIVE HasTag(_, _)
HasTag(el, tag) == el.tag = tag \/ \E i \in 1..Len(el.kids) : HasTag(el.kids[i], tag)

\* input.startsWith("<svg") || input.includes("<svg")
LooksLikeSvg(t) ==
  \/ t.k = "xml" /\ HasTag(t.root, "svg")
  \/ t.k = "junk" /\ t.marker

\* new XMLSerializer().serializeToString(el)
SerializeToString(el) == XmlText(el)

\* parseSVGText throws when the parser reports a parsererror.
ParseThrows(t) == t.k # "xml"
parseSVGText(t) == Document(t.root)

(***************************************************************************)
(* sanitizeSVGDocument                                                     *)
(***************************************************************************)
\* el with every descendant element named tag removed (querySelectorAll
\* matches the element name case-sensitively in an XML document).
RECURSIVE RemoveDescendants(_, _)
RemoveDescendants(el, tag) ==
  LET keep == SelectSeq(el.kids, LAMBDA k : k.tag # tag)
  IN  [el EXCEPT !.kids = [i \in 1..Len(keep) |-> RemoveDescendants(keep[i], tag)]]

\* doc.querySelectorAll(tag).forEach((n) => n.remove())
RemoveAll(doc, tag) ==
  IF doc.root = Null THEN doc
  ELSE IF doc.root.tag = tag THEN Document(Null)
  ELSE Document(RemoveDescendants(doc.root, tag))

\* An attribute pass that empties an element as soon as one of its
\* attributes is unsafe, to show what C13 rests on.
StripEveryAttribute(left, cur) ==
  IF \E i \in 1..Len(left) : OnPattern(left[i].name) \/ JavascriptValue(left[i].value)
  THEN <<>> ELSE cur

\* [...el.attributes].forEach(...) over the snapshot `left`, removing from cur.
RECURSIVE StripAttributes(_, _)
StripAttributes(left, cur) ==
  IF left = <<>> THEN cur
  ELSE LET a == Head(left)
           c1 == IF OnPattern(a.name) THEN RemoveAttribute(cur, a.name) ELSE cur
           c2 == IF JavascriptValue(a.value) THEN RemoveAttribute(c1, a.name) ELSE c1
       IN  StripAttributes(Tail(left), c2)

\* doc.querySelectorAll("*").forEach(...)
RECURSIVE StripElement(_)
StripElement(el) ==
  [tag |-> el.tag,
   attrs |-> StripAttributes(el.attrs, el.attrs),
   kids |-> [i \in 1..Len(el.kids) |-> StripElement(el.kids[i])]]

StripAll(doc) == IF doc.root = Null THEN doc ELSE Document(StripElement(doc.root))

\* A sanitizer without the foreignObject pass, to show what C2 rests on.
NoForeignSanitize(doc) == StripAll(RemoveAll(doc, "script"))

sanitizeSVGDocument(doc) == StripAll(RemoveAll(RemoveAll(doc, "script"), "foreignObject"))

\* What the sanitizer promises about an element tree.
UnsafeAttr(a) == OnPattern(a.name) \/ StartsWith(ToLowerCase(Trim(a.value)), JavascriptColon)

RECURSIVE SafeElement(_)
SafeElement(el) ==
  /\ el.tag \notin {"script", "foreignObject"}
  /\ \A i \in 1..Len(el.attrs) : ~UnsafeAttr(el.attrs[i])
  /\ \A i \in 1..Len(el.kids) : SafeElement(el.kids[i])

SafeOrNull(el) == el = Null \/ SafeElement(el)

(***************************************************************************)
(* The viewer: the `state` object and the page elements the handlers touch *)
(***************************************************************************)
\* { w, threw }: the world a handler leaves and whether it left by a throw.
Ok(w) == [w |-> w, threw |-> FALSE]
Threw(w) == [w |-> w, threw |-> TRUE]

setStatus(w, t) == [w EXCEPT !.p.status = t]

\* applyTransform only rewrites svgContainer.style.transform from state.
applyTransform(w) == w

adjustFit(w) ==
  IF w.s.svgElement = Null THEN w
  ELSE applyTransform([w EXCEPT !.s.tx = Zero, !.s.ty = Zero, !.s.scale = One])

\* The clone the renderer mounts: viewBox synthesized from width/height.
WithViewBox(imported) ==
  IF HasAttribute(imported, <<"v", "i", "e", "w", "B", "o", "x">>) THEN imported
  ELSE LET w == GetAttribute(imported, <<"w", "i", "d", "t", "h">>)
           h == GetAttribute(imported, <<"h", "e", "i", "g", "h", "t">>)
       IN  IF Truthy(w) /\ Truthy(h) /\ ~IsNaN(ParseFloat(w)) /\ ~IsNaN(ParseFloat(h))
           THEN SetAttribute(imported, <<"v", "i", "e", "w", "B", "o", "x">>,
                             <<"0", " ", "0", " ">> \o NumberToString(ParseFloat(w))
                               \o <<" ">> \o NumberToString(ParseFloat(h)))
           ELSE imported

\* A renderer that leaves a document already displayed in place, to show
\* what C7 rests on.
RenderFirstWins(w, doc) ==
  IF doc.root = Null THEN Threw(w)
  ELSE IF w.s.svgElement # Null THEN Ok(setStatus(w, "loaded"))
  ELSE Ok([w EXCEPT !.s.svgElement = doc.root, !.p.container = WithViewBox(doc.root),
                    !.p.appended = TRUE, !.p.status = "loaded",
                    !.p.sourceArea = SerializeToString(doc.root)])

\* A renderer that mounts the document but leaves scale and translate as
\* they were, to show what C8 rests on.
RenderKeepView(w, doc) ==
  IF doc.root = Null THEN Threw(w)
  ELSE Ok([w EXCEPT !.s.svgElement = doc.root, !.p.container = WithViewBox(doc.root),
                    !.p.appended = TRUE, !.p.status = "loaded",
                    !.p.sourceArea = SerializeToString(doc.root)])

\* renderSVGDocument: document.importNode(null, true) throws a TypeError
\* after the state was reset and the container emptied.
renderSVGDocument(w, doc) ==
  LET svg == doc.root
      w1 == [w EXCEPT !.s.scale = One, !.s.tx = Zero, !.s.ty = Zero,
                      !.s.svgElement = svg, !.p.container = Null]
  IN  IF svg = Null THEN Threw(w1)
      ELSE LET w2 == [w1 EXCEPT !.p.container = WithViewBox(svg), !.p.appended = TRUE]
               w3 == setStatus(adjustFit(w2), "loaded")
           IN  Ok([w3 EXCEPT !.p.sourceArea = SerializeToString(svg)])

\* A load that renders what it parsed without sanitizing it, to show what
\* C1 rests on.
ParseRender(w, txt, failed) ==
  IF ParseThrows(txt) THEN setStatus(w, failed)
  ELSE LET r == renderSVGDocument(w, parseSVGText(txt))
       IN  IF r.threw THEN setStatus(r.w, failed) ELSE r.w

\* try { parseSVGText; sanitizeSVGDocument; renderSVGDocument } catch { setStatus }
ParseSanitizeRender(w, txt, failed) ==
  IF ParseThrows(txt) THEN setStatus(w, failed)
  ELSE LET r == renderSVGDocument(w, sanitizeSVGDocument(parseSVGText(txt)))
       IN  IF r.threw THEN setStatus(r.w, failed) ELSE r.w

\* A clear that leaves the file input alone, to show what C9 rests on.
ClearKeepFile(w) ==
  [w EXCEPT !.p.container = Null, !.p.sourceArea = EmptyText, !.p.urlInput = EmptyText,
            !.s.svgElement = Null, !.s.scale = One, !.s.tx = Zero, !.s.ty = Zero,
            !.p.status = "cleared"]

\* clearBtn click
ClearHandler(w) ==
  [w EXCEPT !.p.container = Null, !.p.sourceArea = EmptyText,
            !.p.fileInput = EmptyText, !.p.urlInput = EmptyText,
            !.s.svgElement = Null, !.s.scale = One, !.s.tx = Zero, !.s.ty = Zero,
            !.p.status = "cleared"]

\* loadSource click
LoadSourceHandler(w) ==
  LET txt == TrimText(w.p.sourceArea)
  IN  IF txt = EmptyText THEN setStatus(w, "source empty")
      ELSE ParseSanitizeRender(w, txt, "source load failed")

\* downloadClean click: the blob handed to the browser is page.download.
DownloadHandler(w) ==
  IF w.s.svgElement = Null THEN setStatus(w, "nothing to download")
  ELSE [w EXCEPT !.p.download = SerializeToString(w.s.svgElement),
                 !.p.status = "download ready"]

(***************************************************************************)
(* Zoom buttons, keyboard, wheel                                           *)
(***************************************************************************)
Clamp(x) == MathMax(minScale, MathMin(maxScale, x))

\* A setScale that also recentres the view, to show what C16 rests on.
setScaleRecentred(w, x) ==
  applyTransform([w EXCEPT !.s.scale = Clamp(x), !.s.tx = Zero, !.s.ty = Zero])

setScale(w, x) == applyTransform([w EXCEPT !.s.scale = Clamp(x)])

ZoomInHandler(w) == setScale(w, Mul(w.s.scale, ZoomStep))

\* state.scale / 1.2
ZoomOutHandler(w) == setScale(w, Mul(w.s.scale, <<ZoomStep[2], ZoomStep[1]>>))

KeydownHandler(w, key) ==
  LET w1 == IF key \in {"+", "="} THEN setScale(w, Mul(w.s.scale, ZoomStep)) ELSE w
  IN  IF key = "-" THEN setScale(w1, Mul(w1.s.scale, <<ZoomStep[2], ZoomStep[1]>>)) ELSE w1

\* viewer.getBoundingClientRect(): where the page lays the viewer out.
ViewerRect == [left |-> 1, top |-> 2]

\* state.tx/ty moved by -(anchor) * (newScale - state.scale), then the scale.
ZoomAbout(w, ax, ay, newScale) ==
  applyTransform([w EXCEPT
     !.s.tx = Sub(w.s.tx, Mul(ax, Sub(newScale, w.s.scale))),
     !.s.ty = Sub(w.s.ty, Mul(ay, Sub(newScale, w.s.scale))),
     !.s.scale = newScale])

WheelHandler(w, clientX, clientY, deltaY) ==
  LET delta == 0 - deltaY
      factor == IF delta > 0 THEN WheelStep ELSE <<WheelStep[2], WheelStep[1]>>
      mx == Num(clientX - ViewerRect.left)
      my == Num(clientY - ViewerRect.top)
  IN  ZoomAbout(w, mx, my, Clamp(Mul(w.s.scale, factor)))

(***************************************************************************)
(* Pointer handling: state.pointers is a Map, kept in insertion order      *)
(***************************************************************************)
MapHas(m, id) == \E i \in 1..Len(m) : m[i].id = id

MapSet(m, id, x, y) ==
  IF MapHas(m, id)
  THEN [i \in 1..Len(m) |-> IF m[i].id = id THEN [id |-> id, x |-> x, y |-> y] ELSE m[i]]
  ELSE Append(m, [id |-> id, x |-> x, y |-> y])

MapDelete(m, id) == SelectSeq(m, LAMBDA e : e.id # id)

PointerDownHandler(w, id, x, y) == [w EXCEPT !.s.pointers = MapSet(w.s.pointers, id, x, y)]

\* Math.hypot on integer offsets whose length is an integer.
Hypot(dx, dy) == CHOOSE r \in 0..(Abs(dx) + Abs(dy)) : r * r = dx * dx + dy * dy

\* A pan that keeps measuring from the first recorded position, to show
\* what C15 rests on.
PanMoveStale(w) ==
  LET p == w.s.pointers[1]
  IN  IF w.s.isPanning = FALSE
      THEN [w EXCEPT !.s.isPanning = TRUE, !.s.lastX = p.x, !.s.lastY = p.y]
      ELSE applyTransform([w EXCEPT
             !.s.tx = Add(w.s.tx, Num(p.x - w.s.lastX)),
             !.s.ty = Add(w.s.ty, Num(p.y - w.s.lastY))])

PanMove(w) ==
  LET p == w.s.pointers[1]
  IN  IF w.s.isPanning = FALSE
      THEN [w EXCEPT !.s.isPanning = TRUE, !.s.lastX = p.x, !.s.lastY = p.y]
      ELSE applyTransform([w EXCEPT
             !.s.tx = Add(w.s.tx, Num(p.x - w.s.lastX)),
             !.s.ty = Add(w.s.ty, Num(p.y - w.s.lastY)),
             !.s.lastX = p.x, !.s.lastY = p.y])

\* A pinch that scales from the scale of the moment rather than from the
\* anchored one, to show what C10 rests on.
PinchMoveLive(w) ==
  LET p0 == w.s.pointers[1]
      p1 == w.s.pointers[2]
      curDist == Hypot(p1.x - p0.x, p1.y - p0.y)
      start == w.s.pinchStart
  IN  IF start = Null
      THEN [w EXCEPT !.s.pinchStart =
              [dist |-> curDist, scale |-> w.s.scale,
               center |-> [x |-> Quot(p0.x + p1.x, 2), y |-> Quot(p0.y + p1.y, 2)]]]
      ELSE LET newScale == Clamp(Mul(w.s.scale, Quot(curDist, start.dist)))
               cx == Sub(start.center.x, Num(ViewerRect.left))
               cy == Sub(start.center.y, Num(ViewerRect.top))
           IN  ZoomAbout(w, cx, cy, newScale)

PinchMove(w) ==
  LET p0 == w.s.pointers[1]
      p1 == w.s.pointers[2]
      curDist == Hypot(p1.x - p0.x, p1.y - p0.y)
      start == w.s.pinchStart
  IN  IF start = Null
      THEN [w EXCEPT !.s.pinchStart =
              [dist |-> curDist, scale |-> w.s.scale,
               center |-> [x |-> Quot(p0.x + p1.x, 2), y |-> Quot(p0.y + p1.y, 2)]]]
      ELSE LET ratio == Quot(curDist, start.dist)
               newScale == Clamp(Mul(start.scale, ratio))
               cx == Sub(start.center.x, Num(ViewerRect.left))
               cy == Sub(start.center.y, Num(ViewerRect.top))
           IN  ZoomAbout(w, cx, cy, newScale)

PointerMoveHandler(w, id, x, y) ==
  IF ~MapHas(w.s.pointers, id) THEN w
  ELSE LET w1 == [w EXCEPT !.s.pointers = MapSet(w.s.pointers, id, x, y)]
       IN  IF Len(w1.s.pointers) = 1 THEN PanMove(w1)
           ELSE IF Len(w1.s.pointers) = 2 THEN PinchMove(w1)
           ELSE w1

\* A pointerup that forgets to drop the pinch anchor, to show what C14
\* rests on.
PointerUpKeepsAnchor(w, id) ==
  [w EXCEPT !.s.pointers = MapDelete(w.s.pointers, id), !.s.isPanning = FALSE]

PointerUpHandler(w, id) ==
  [w EXCEPT !.s.pointers = MapDelete(w.s.pointers, id),
            !.s.isPanning = FALSE, !.s.pinchStart = Null]

PointerCancelHandler(w, id) ==
  [w EXCEPT !.s.pointers = MapDelete(w.s.pointers, id),
            !.s.isPanning = FALSE, !.s.pinchStart = Null]

(***************************************************************************)
(* Image inliner helpers                                                   *)
(***************************************************************************)
Href == <<"h", "r", "e", "f">>
XlinkHref == <<"x", "l", "i", "n", "k", ":", "h", "r", "e", "f">>
\* reader.result of readAsDataURL
DataUrl == DataColon \o <<"i", "m", "g">>

\* Paths (child indices from the root) of the elements named tag, in
\* document order: Array.from(doc.querySelectorAll(tag)).
RECURSIVE PathsOf(_, _)
PathsOf(el, tag) ==
  (IF el.tag = tag THEN <<<<>>>> ELSE <<>>) \o
  LET KidPaths[i \in 1..(Len(el.kids) + 1)] ==
        IF i > Len(el.kids) THEN <<>>
        ELSE LET sub == PathsOf(el.kids[i], tag)
             IN  [j \in 1..Len(sub) |-> <<i>> \o sub[j]] \o KidPaths[i + 1]
  IN  KidPaths[1]

RECURSIVE ElementAt(_, _)
ElementAt(el, path) == IF path = <<>> THEN el ELSE ElementAt(el.kids[Head(path)], Tail(path))

RECURSIVE ReplaceAt(_, _, _)
ReplaceAt(el, path, new) ==
  IF path = <<>> THEN new
  ELSE [el EXCEPT !.kids[Head(path)] = ReplaceAt(el.kids[Head(path)], Tail(path), new)]

\* img.getAttribute("href") || img.getAttributeNS(xlink, "href")
ImageHref(img) ==
  IF Truthy(GetAttribute(img, Href)) THEN GetAttribute(img, Href)
  ELSE GetAttribute(img, XlinkHref)

\* Does the loop body reach its fetch for this image?
NeedsFetch(img) == Truthy(ImageHref(img)) /\ ~StartsWith(ImageHref(img), DataColon)

\* The first image at or after position i the loop fetches; Len + 1 if none.
RECURSIVE NextFetch(_, _, _)
NextFetch(root, images, i) ==
  IF i > Len(images) THEN i
  ELSE IF NeedsFetch(ElementAt(root, images[i])) THEN i
  ELSE NextFetch(root, images, i + 1)

\* After the loop: sanitize, render, report (inside the handler's try).
InlineFinish(w, root) ==
  LET r == renderSVGDocument(w, sanitizeSVGDocument(Document(root)))
  IN  IF r.threw THEN setStatus(r.w, "inline failed") ELSE setStatus(r.w, "inline done")

(***************************************************************************)
(* Inputs                                                                  *)
(***************************************************************************)
Width == <<"w", "i", "d", "t", "h">>
Height == <<"h", "e", "i", "g", "h", "t">>
ViewBox == <<"v", "i", "e", "w", "B", "o", "x">>
Alert == <<"a", "(", ")">>

\* <svg width="100" height="50"><circle r="5"/></svg>
SizedDoc ==
  Element("svg", <<Attr(Width, <<"1", "0", "0">>), Attr(Height, <<"5", "0">>)>>,
          <<Element("circle", <<Attr(<<"r">>, <<"5">>)>>, <<>>)>>)

\* <svg onload="a()" viewBox="0 0 9 9" width="8px"><script/>
\*   <a ONclick="a()" href=" JavaScript:a()"/>
\*   <foreignObject><script/></foreignObject>
\*   <image href="u"/><image xlink:href="u"/></svg>
UnsafeDoc ==
  Element("svg", <<Attr(<<"o", "n", "l", "o", "a", "d">>, Alert),
                   Attr(ViewBox, <<"0", " ", "0", " ", "9", " ", "9">>),
                   Attr(Width, <<"8", "p", "x">>)>>,
          <<Element("script", <<>>, <<>>),
            Element("a", <<Attr(<<"O", "N", "c", "l", "i", "c", "k">>, Alert),
                           Attr(Href, <<" ", "J", "a", "v", "a", "S", "c", "r", "i", "p", "t", ":">> \o Alert)>>,
                    <<>>),
            Element("foreignObject", <<>>, <<Element("script", <<>>, <<>>)>>),
            Element("image", <<Attr(Href, <<"u">>)>>, <<>>),
            Element("image", <<Attr(XlinkHref, <<"u">>)>>, <<>>)>>)

\* <script><svg/></script>: well-formed, and its root is what the sanitizer removes
RootScriptDoc == Element("script", <<>>, <<Element("svg", <<>>, <<>>)>>)

DocPool == {SizedDoc, UnsafeDoc, RootScriptDoc}

\* What a file, a response body, the clipboard or a drop may hold.
TextPool == {XmlText(d) : d \in DocPool} \cup {JunkText(TRUE), UrlText("u"), BlankText, EmptyText}

\* What the user types into the URL field or the source area.
TypedPool == {XmlText(RootScriptDoc), JunkText(TRUE), UrlText("u"), BlankText}

\* fileInput.value once a file is chosen
FilePath == [k |-> "path"]

\* A rejected promise (file read, clipboard read, fetch, body read, ...).
Rejected == [k |-> "rejected"]

\* Pointer ids and the client positions events carry; the positions lie on
\* a line of slope 4/3 so that every distance between two of them is whole.
PointerIds == {1, 2, 3}
Points == {<<0, 0>>, <<3, 4>>, <<6, 8>>}
Keys == {"+", "=", "-", "a"}
DeltaYs == {-1, 0, 1}

(***************************************************************************)
(* Actions                                                                 *)
(***************************************************************************)
\* The world a handler starts from.  Two fields of page say what the step
\* did to its surroundings: download is the file it handed to the browser
\* (the object URL is revoked before the handler returns), appended is
\* whether it mounted a node with svgContainer.appendChild.
Cur == [s |-> state, p |-> [page EXCEPT !.download = Null, !.appended = FALSE]]

Commit(w) == state' = w.s /\ page' = w.p

\* A pointer, wheel, zoom or key event; one that changes nothing is not counted.
ViewStep(w) ==
  /\ used.view < limit.view
  /\ Commit(w)
  /\ used' = IF w.s = state THEN used ELSE [used EXCEPT !.view = @ + 1]
  /\ UNCHANGED <<tasks, limit, hist, sanIn, sanOut>>

PageStep(w) == Commit(w) /\ UNCHANGED <<tasks, used, limit, hist, sanIn, sanOut>>

ZoomInClick == ViewStep(ZoomInHandler(Cur))
ZoomOutClick == ViewStep(ZoomOutHandler(Cur))
FitClick == PageStep(adjustFit(Cur))
Keydown == \E key \in Keys : ViewStep(KeydownHandler(Cur, key))
Wheel == \E pt \in Points, d \in DeltaYs : ViewStep(WheelHandler(Cur, pt[1], pt[2], d))
PointerDown == \E id \in PointerIds, pt \in Points : ViewStep(PointerDownHandler(Cur, id, pt[1], pt[2]))
PointerMove == \E id \in PointerIds, pt \in Points : ViewStep(PointerMoveHandler(Cur, id, pt[1], pt[2]))
PointerUp == \E id \in PointerIds : ViewStep(PointerUpHandler(Cur, id))
PointerCancel == \E id \in PointerIds : ViewStep(PointerCancelHandler(Cur, id))

ClearClick == PageStep(ClearHandler(Cur))
DownloadClick == PageStep(DownloadHandler(Cur))
LoadSourceClick == PageStep(LoadSourceHandler(Cur))

\* The user types in the source area / the URL field.
EditStep(w) ==
  /\ used.edits < limit.edits
  /\ Commit(w)
  /\ used' = [used EXCEPT !.edits = @ + 1]
  /\ UNCHANGED <<tasks, limit, hist, sanIn, sanOut>>

SourceEdit == \E t \in TypedPool : t # page.sourceArea /\ EditStep([Cur EXCEPT !.p.sourceArea = t])
UrlEdit == \E t \in TypedPool : t # page.urlInput /\ EditStep([Cur EXCEPT !.p.urlInput = t])

\* A handler that reaches an await: the state it leaves and the task that
\* resumes later.
Start(w, task) ==
  /\ used.tasks < limit.tasks
  /\ Commit(w)
  /\ tasks' = tasks \cup {[task EXCEPT !.id = used.tasks + 1]}
  /\ used' = [used EXCEPT !.tasks = @ + 1]
  /\ UNCHANGED <<limit, hist, sanIn, sanOut>>

\* A resumed handler that reaches its next await.
Continue(w, old, new) ==
  /\ Commit(w)
  /\ tasks' = (tasks \ {old}) \cup {new}
  /\ UNCHANGED <<used, limit, hist, sanIn, sanOut>>

\* A resumed handler that runs to its end.
Finish(w, old) ==
  /\ Commit(w)
  /\ tasks' = tasks \ {old}
  /\ UNCHANGED <<used, limit, hist, sanIn, sanOut>>

FileTask == [id |-> 0, kind |-> "file"]
ClipTask == [id |-> 0, kind |-> "clip"]
UrlTask == [id |-> 0, kind |-> "url", stage |-> "fetch", fetched |-> 0]

\* fileInput change: the browser has set fileInput.value to the chosen file.
FileChange ==
  \/ PageStep([Cur EXCEPT !.p.fileInput = EmptyText])
  \/ Start(setStatus([Cur EXCEPT !.p.fileInput = FilePath], "reading file"), FileTask)

\* await f.text() settles (file input and dropped file run the same code).
FileTextDone ==
  \E t \in tasks, txt \in TextPool \cup {Rejected} :
    /\ t.kind = "file"
    /\ Finish(IF txt = Rejected THEN setStatus(Cur, "load failed")
              ELSE ParseSanitizeRender(Cur, txt, "load failed"), t)

\* loadFromTextOrUrl up to its first await, as a step of task slot `old`
\* (Null: a fresh handler).
LoadFromTextOrUrl(input, old) ==
  IF LooksLikeSvg(input)
  THEN IF old = Null THEN PageStep(ParseSanitizeRender(Cur, input, "parse failed"))
       ELSE Finish(ParseSanitizeRender(Cur, input, "parse failed"), old)
  ELSE IF old = Null THEN Start(setStatus(Cur, "fetching"), UrlTask)
       ELSE Continue(setStatus(Cur, "fetching"), old, [UrlTask EXCEPT !.id = old.id])

\* drop on the viewer, dataTransfer.files[0] present: up to await file.text().
DropFile == Start(setStatus(Cur, "reading file"), FileTask)

\* drop on the viewer, no file: the dropped text, if any.
DropText ==
  \E t \in TextPool :
    IF t = EmptyText THEN PageStep(Cur) ELSE LoadFromTextOrUrl(TrimText(t), Null)

PasteClick == Start(Cur, ClipTask)

ClipboardDone ==
  \E t \in tasks, clip \in TextPool \cup {Rejected} :
    /\ t.kind = "clip"
    /\ IF clip = Rejected THEN Finish(setStatus(Cur, "clipboard failed"), t)
       ELSE IF clip = EmptyText THEN Finish(setStatus(Cur, "clipboard empty"), t)
       ELSE LoadFromTextOrUrl(TrimText(clip), t)

UrlKeydown ==
  \E key \in {"Enter", "a"} :
    IF key = "Enter" /\ TrimText(page.urlInput) # EmptyText
    THEN LoadFromTextOrUrl(TrimText(page.urlInput), Null)
    ELSE PageStep(Cur)

\* await fetch(input) settles: rejected, a response that is not ok, or ok.
FetchDone ==
  \E t \in tasks, res \in {"rejected", "not ok", "ok"} :
    /\ t.kind = "url" /\ t.stage = "fetch"
    /\ IF res = "ok"
       THEN /\ Commit(Cur)
            /\ tasks' = (tasks \ {t}) \cup {[t EXCEPT !.stage = "text", !.fetched = used.fetched + 1]}
            /\ used' = [used EXCEPT !.fetched = @ + 1]
            /\ UNCHANGED <<limit, hist, sanIn, sanOut>>
       ELSE /\ Commit(setStatus(Cur, "url failed"))
            /\ tasks' = tasks \ {t}
            /\ hist' = Append(hist, [id |-> t.id, fetched |-> 0, body |-> Rejected,
                                     with |-> {o.id : o \in {o \in tasks \ {t} : o.kind = "url"}}])
            /\ UNCHANGED <<used, limit, sanIn, sanOut>>

\* await res.text() settles, then parse, sanitize, render.
TextDone ==
  \E t \in tasks, txt \in TextPool \cup {Rejected} :
    /\ t.kind = "url" /\ t.stage = "text"
    /\ LET w == IF txt = Rejected THEN setStatus(Cur, "url failed")
                ELSE ParseSanitizeRender(Cur, txt, "url failed")
       IN  /\ Commit(w)
           /\ tasks' = tasks \ {t}
           /\ hist' = Append(hist, [id |-> t.id, fetched |-> t.fetched, body |-> txt,
                                    with |-> {o.id : o \in {o \in tasks \ {t} : o.kind = "url"}}])
           /\ UNCHANGED <<used, limit, sanIn, sanOut>>

InlineTask(root, i) == [id |-> 0, kind |-> "inline", root |-> root, i |-> i, stage |-> "fetch"]

\* inlineImgs click, up to the first await of its loop.
InlineClick ==
  IF state.svgElement = Null THEN PageStep(setStatus(Cur, "load an svg first"))
  ELSE LET w == setStatus(Cur, "inlining")
           xml == SerializeToString(state.svgElement)
       IN  IF ParseThrows(xml) THEN PageStep(setStatus(w, "inline failed"))
           ELSE LET root == parseSVGText(xml).root
                    images == PathsOf(root, "image")
                    first == NextFetch(root, images, 1)
                IN  IF Len(images) = 0 THEN PageStep(setStatus(w, "no images"))
                    ELSE IF first > Len(images) THEN PageStep(InlineFinish(w, root))
                    ELSE Start(w, InlineTask(root, first))

\* The loop moves on from image t.i (kept or rewritten) to the next fetch,
\* or leaves the loop and finishes.
InlineAdvance(t, root) ==
  LET images == PathsOf(root, "image")
      next == NextFetch(root, images, t.i + 1)
  IN  IF next > Len(images) THEN Finish(InlineFinish(Cur, root), t)
      ELSE Continue(Cur, t, [t EXCEPT !.root = root, !.i = next, !.stage = "fetch"])

\* An inline loop that gives up on the first image it cannot fetch, to show
\* what C11 rests on.
InlineFetchAborts ==
  \E t \in tasks, res \in {"rejected", "not ok", "ok"} :
    /\ t.kind = "inline" /\ t.stage = "fetch"
    /\ IF res = "ok" THEN Continue(Cur, t, [t EXCEPT !.stage = "blob"])
       ELSE Finish(setStatus(Cur, "inline failed"), t)

\* await fetch(href) settles.
InlineFetchDone ==
  \E t \in tasks, res \in {"rejected", "not ok", "ok"} :
    /\ t.kind = "inline" /\ t.stage = "fetch"
    /\ IF res = "ok" THEN Continue(Cur, t, [t EXCEPT !.stage = "blob"])
       ELSE InlineAdvance(t, t.root)

\* await res.blob() settles.
InlineBlobDone ==
  \E t \in tasks, ok \in BOOLEAN :
    /\ t.kind = "inline" /\ t.stage = "blob"
    /\ IF ok THEN Continue(Cur, t, [t EXCEPT !.stage = "read"])
       ELSE InlineAdvance(t, t.root)

\* The FileReader promise settles; on success img.setAttribute("href", dataUrl).
InlineReadDone ==
  \E t \in tasks, ok \in BOOLEAN :
    /\ t.kind = "inline" /\ t.stage = "read"
    /\ LET path == PathsOf(t.root, "image")[t.i]
           img == ElementAt(t.root, path)
       IN  IF ok THEN InlineAdvance(t, ReplaceAt(t.root, path, SetAttribute(img, Href, DataUrl)))
           ELSE InlineAdvance(t, t.root)

(***************************************************************************)
(* Specification                                                           *)
(***************************************************************************)
InitViewer ==
  /\ state = [scale |-> One, tx |-> Zero, ty |-> Zero, isPanning |-> FALSE,
              lastX |-> 0, lastY |-> 0, pointers |-> <<>>, svgElement |-> Null,
              pinchStart |-> Null]
  /\ page = [container |-> Null, sourceArea |-> EmptyText, fileInput |-> EmptyText,
             urlInput |-> EmptyText, status |-> "ready", download |-> Null,
             appended |-> FALSE]
  /\ tasks = {}
  /\ used = [view |-> 0, edits |-> 0, tasks |-> 0, fetched |-> 0]
  /\ hist = <<>>

\* A session about loading, with a little interaction.
Init ==
  /\ InitViewer
  /\ limit = [view |-> MaxLoadViewOps, edits |-> MaxEdits, tasks |-> MaxTasks]
  /\ sanIn = Null /\ sanOut = Null

Next ==
  \/ FileChange \/ FileTextDone \/ DropFile \/ DropText \/ PasteClick \/ ClipboardDone
  \/ UrlEdit \/ UrlKeydown \/ FetchDone \/ TextDone
  \/ SourceEdit \/ LoadSourceClick \/ DownloadClick \/ ClearClick
  \/ InlineClick \/ InlineFetchDone \/ InlineBlobDone \/ InlineReadDone
  \/ ZoomInClick \/ ZoomOutClick \/ FitClick \/ Keydown \/ Wheel
  \/ PointerDown \/ PointerMove \/ PointerUp \/ PointerCancel

Spec == Init /\ [][Next]_vars

\* A session about interaction: no typing, nothing asynchronous.
InitView ==
  /\ InitViewer
  /\ limit = [view |-> MaxViewOps, edits |-> 0, tasks |-> 0]
  /\ sanIn = Null /\ sanOut = Null

NextView ==
  \/ DropText \/ LoadSourceClick \/ ClearClick \/ FitClick
  \/ ZoomInClick \/ ZoomOutClick \/ Keydown \/ Wheel
  \/ PointerDown \/ PointerMove \/ PointerUp \/ PointerCancel

SpecView == InitView /\ [][NextView]_vars

\* A session of gestures and zooming only: nothing is loaded.
NextPinch ==
  \/ ZoomInClick \/ ZoomOutClick \/ Keydown \/ Wheel
  \/ PointerDown \/ PointerMove \/ PointerUp \/ PointerCancel

SpecPinch == InitView /\ [][NextPinch]_vars

\* A session of URL loads only.
InitRace ==
  /\ InitViewer
  /\ limit = [view |-> 0, edits |-> MaxEdits, tasks |-> MaxUrlLoads]
  /\ sanIn = Null /\ sanOut = Null

NextRace == UrlEdit \/ UrlKeydown \/ FetchDone \/ TextDone

SpecRace == InitRace /\ [][NextRace]_vars

(***************************************************************************)
(* The sanitizer on its own: a parsed document is built up element by      *)
(* element and attribute by attribute (sanIn), then sanitized (sanOut).    *)
(***************************************************************************)
SanTags == {"svg", "script", "foreignObject"}

SanAttrs ==
  {Attr(<<"O", "n", "C", "l", "i", "c", "k">>, Alert),
   Attr(<<"o", "n">>, <<>>),
   Attr(Href, <<"\t", " ", "J", "A", "V", "A", "s", "c", "r", "i", "p", "t", ":">> \o Alert),
   Attr(Href, <<"u">>)}

RECURSIVE AllPaths(_)
AllPaths(el) ==
  {<<>>} \cup UNION {{<<i>> \o q : q \in AllPaths(el.kids[i])} : i \in 1..Len(el.kids)}

RECURSIVE CountAttrs(_)
CountAttrs(el) ==
  LET Sum[i \in 0..Len(el.kids)] == IF i = 0 THEN 0 ELSE Sum[i - 1] + CountAttrs(el.kids[i])
  IN  Len(el.attrs) + Sum[Len(el.kids)]

SanUnchanged == UNCHANGED <<state, page, tasks, used, limit, hist>>

InitSanitize ==
  /\ InitViewer
  /\ limit = [view |-> 0, edits |-> 0, tasks |-> 0]
  /\ sanIn \in {Element(tag, <<>>, <<>>) : tag \in SanTags}
  /\ sanOut = Null

AddChild ==
  \E path \in AllPaths(sanIn), tag \in SanTags :
    /\ sanOut = Null
    /\ Cardinality(AllPaths(sanIn)) < MaxNodes
    /\ sanIn' = LET el == ElementAt(sanIn, path)
                IN  ReplaceAt(sanIn, path, [el EXCEPT !.kids = Append(@, Element(tag, <<>>, <<>>))])
    /\ UNCHANGED sanOut /\ SanUnchanged

AddAttribute ==
  \E path \in AllPaths(sanIn), a \in SanAttrs :
    /\ sanOut = Null
    /\ CountAttrs(sanIn) < MaxAttrs
    /\ ~HasAttribute(ElementAt(sanIn, path), a.name)
    /\ sanIn' = LET el == ElementAt(sanIn, path)
                IN  ReplaceAt(sanIn, path, [el EXCEPT !.attrs = Append(@, a)])
    /\ UNCHANGED sanOut /\ SanUnchanged

Sanitize ==
  /\ sanOut = Null
  /\ sanOut' = sanitizeSVGDocument(Document(sanIn))
  /\ UNCHANGED sanIn /\ SanUnchanged

NextSanitize == AddChild \/ AddAttribute \/ Sanitize

SpecSanitize == InitSanitize /\ [][NextSanitize]_vars

(***************************************************************************)
(* Claims                                                                  *)
(***************************************************************************)

\* C2: whatever document is sanitized, the result holds no script and no
\* foreignObject element at any depth, no attribute named on* (any case)
\* and no attribute whose trimmed, lowercased value starts with
\* "javascript:".
C2_SanitizedIsSafe == sanOut # Null => SafeOrNull(sanOut.root)

\* An unsafe document (a foreignObject in it, and an attribute the sanitizer
\* drops) was sanitized and its root survived.
C2_Witness ==
  /\ sanOut # Null /\ sanOut.root # Null
  /\ HasTag(sanIn, "foreignObject")
  /\ CountAttrs(sanOut.root) < CountAttrs(sanIn)

\* C1: in every reachable state, whatever loads and inlinings led to it, the
\* document recorded as current and the content mounted in the display
\* surface hold no script element, no foreignObject element, no on*
\* attribute and no attribute whose trimmed, lowercased value starts with
\* "javascript:".
C1_DisplayedIsSafe == SafeOrNull(state.svgElement) /\ SafeOrNull(page.container)

\* The unsafe document was loaded and its images were inlined: what is
\* displayed still has the element that carried the javascript: link, and an
\* image rewritten to a data URL.
C1_Witness ==
  /\ page.status = "inline done"
  /\ state.svgElement # Null /\ page.container # Null
  /\ HasTag(state.svgElement, "a")
  /\ \E i \in 1..Len(state.svgElement.kids) :
       GetAttribute(state.svgElement.kids[i], Href) = DataUrl

\* Has the root a width and a height that parseFloat reads as numbers?
NumericSize(root) ==
  LET w == GetAttribute(root, Width)
      h == GetAttribute(root, Height)
  IN  Truthy(w) /\ Truthy(h) /\ ~IsNaN(ParseFloat(w)) /\ ~IsNaN(ParseFloat(h))

\* C3: the text the download action produces, for a loaded document whose
\* root has a numeric width and height, carries a viewBox on its root (the
\* document's own, or "0 0 w h" when it had none).
C3_ExportCarriesViewBox ==
  (page.download # Null /\ NumericSize(parseSVGText(page.download).root))
    => HasAttribute(parseSVGText(page.download).root, ViewBox)

\* C4: minScale <= scale <= maxScale in every reachable state.
C4_ScaleClamped ==
  /\ ~IsNaN(state.scale)
  /\ ~Less(state.scale, minScale)
  /\ ~Less(maxScale, state.scale)

\* Is the content point under surface point (px, py) the same for the view
\* of this state and of the next?  (P - t) / s = (P - t') / s', with both
\* sides multiplied by s * s'.
SameContentPoint(px, py) ==
  /\ Mul(Sub(px, state.tx), state'.scale) = Mul(Sub(px, state'.tx), state.scale)
  /\ Mul(Sub(py, state.ty), state'.scale) = Mul(Sub(py, state'.ty), state.scale)

FiniteView == IsFinite(state.scale) /\ IsFinite(state.tx) /\ IsFinite(state.ty)

\* C5: from every reachable finite view, a wheel zoom at cursor P and a pinch
\* move with gesture centre P leave the content point that was under P at P.
C5_AnchorPreserved ==
  [][/\ \A pt \in Points, d \in DeltaYs :
          (FiniteView /\ state' = WheelHandler(Cur, pt[1], pt[2], d).s)
            => SameContentPoint(Num(pt[1] - ViewerRect.left), Num(pt[2] - ViewerRect.top))
     /\ \A id \in PointerIds, pt \in Points :
          (/\ FiniteView /\ IsFinite(state'.scale)
           /\ Len(state.pointers) = 2 /\ MapHas(state.pointers, id)
           /\ state.pinchStart # Null
           /\ state'.pointers = MapSet(state.pointers, id, pt[1], pt[2])
           /\ state' = PointerMoveHandler(Cur, id, pt[1], pt[2]).s)
            => SameContentPoint(Sub(state.pinchStart.center.x, Num(ViewerRect.left)),
                                Sub(state.pinchStart.center.y, Num(ViewerRect.top)))
    ]_vars

\* The messages a failing load reports.
FailStatuses ==
  {"load failed", "parse failed", "url failed", "source load failed", "clipboard failed"}

\* A step of one of the load paths.
LoadStep ==
  \/ FileTextDone \/ DropText \/ ClipboardDone \/ UrlKeydown
  \/ FetchDone \/ TextDone \/ LoadSourceClick

\* C6: a load step that ends in a failure message leaves the current SVG, the
\* mounted content, the source text area and the view as they were.
C6_FailedLoadKeepsState ==
  [][(LoadStep /\ page'.status \in FailStatuses)
       => /\ state'.svgElement = state.svgElement
          /\ page'.container = page.container
          /\ page'.sourceArea = page.sourceArea
          /\ state'.scale = state.scale /\ state'.tx = state.tx /\ state'.ty = state.ty
    ]_vars

\* What a URL load that read this response body displays, if it gets to
\* display anything.
Shown(e) == sanitizeSVGDocument(parseSVGText(e.body)).root
Succeeds(e) == ~ParseThrows(e.body) /\ Shown(e) # Null

\* This step completes a URL load, the load completed just before it was in
\* flight together with it, and both succeed.
BothCompleted ==
  /\ Len(hist') = Len(hist) + 1 /\ Len(hist') >= 2
  /\ hist'[Len(hist')].id \in hist'[Len(hist') - 1].with
  /\ Succeeds(hist'[Len(hist') - 1]) /\ Succeeds(hist'[Len(hist')])

\* C7 as stated: once both of two overlapping URL loads have completed, the
\* current document is that of the load whose fetch resolved last.
C7_LastFetchedWins ==
  [][BothCompleted =>
       LET a == hist'[Len(hist') - 1]
           b == hist'[Len(hist')]
       IN  state'.svgElement = Shown(IF a.fetched > b.fetched THEN a ELSE b)
    ]_vars

\* C7: once both of two overlapping URL loads have completed, the current
\* and mounted document is that of the load that finished last, the one
\* whose response body was read last, whichever was started first and
\* whichever fetch resolved first.
C7_LastCompletedWins ==
  [][BothCompleted =>
       /\ state'.svgElement = Shown(hist'[Len(hist')])
       /\ page'.container = WithViewBox(Shown(hist'[Len(hist')]))
    ]_vars

\* Two overlapping URL loads of different documents have both completed; the
\* one that finished last was started first and its fetch resolved first.
C7_Witness ==
  /\ Len(hist) = 2 /\ tasks = {}
  /\ hist[2].id \in hist[1].with
  /\ Succeeds(hist[1]) /\ Succeeds(hist[2])
  /\ hist[2].id < hist[1].id /\ hist[2].fetched < hist[1].fetched
  /\ Shown(hist[1]) # Shown(hist[2])
  /\ state.svgElement = Shown(hist[2])

\* C8: in the state a render leaves (a node was just mounted), scale = 1
\* and translate = (0, 0).
C8_RenderResetsView ==
  page.appended => (state.scale = One /\ state.tx = Zero /\ state.ty = Zero)

\* The re-render at the end of inlining has just mounted a document, in a
\* session in which the view was zoomed.
C8_Witness ==
  /\ page.appended /\ page.status = "inline done"
  /\ used.view > 0 /\ state.pointers = <<>>
  /\ state.scale = One /\ state.tx = Zero /\ state.ty = Zero

\* C9: the clear action leaves no mounted content, no current SVG, an empty
\* source text area, file input and URL input, scale = 1 and translate =
\* (0, 0).
C9_ClearResets ==
  [][ClearClick =>
       /\ page'.container = Null /\ state'.svgElement = Null
       /\ page'.sourceArea = EmptyText /\ page'.fileInput = EmptyText
       /\ page'.urlInput = EmptyText
       /\ state'.scale = One /\ state'.tx = Zero /\ state'.ty = Zero
    ]_vars

\* Clear has acted in a session in which a file was chosen, text was typed
\* and the view was changed.
C9_Witness ==
  /\ page.status = "cleared"
  /\ used.tasks > 0 /\ used.edits > 0 /\ used.view > 0
  /\ page.container = Null /\ state.svgElement = Null
  /\ page.fileInput = EmptyText /\ page.urlInput = EmptyText
  /\ page.sourceArea = EmptyText

\* The distance between the two contacts of a state.
ContactDistance(s) ==
  Hypot(s.pointers[2].x - s.pointers[1].x, s.pointers[2].y - s.pointers[1].y)

\* What a move of contact id to pt makes of the current state.
Moved(id, pt) == PointerMoveHandler(Cur, id, pt[1], pt[2]).s

\* C10: no anchor is held while fewer than two contacts are down, nor when a
\* third contact leaves; in every reachable state with two contacts, a move
\* of one of them captures the anchor (distance, scale, centre) and changes
\* neither scale nor translate if no anchor is held, and otherwise keeps the
\* anchor (d0, s0) and sets scale = clamp(s0 * d / d0, minScale, maxScale)
\* for the distance d the move leaves.
C10_PinchScaling ==
  /\ Len(state.pointers) < 2 => state.pinchStart = Null
  /\ Len(state.pointers) > 2 =>
       \A id \in PointerIds :
         /\ PointerUpHandler(Cur, id).s.pinchStart = Null
         /\ PointerCancelHandler(Cur, id).s.pinchStart = Null
  /\ Len(state.pointers) = 2 =>
       \A id \in PointerIds, pt \in Points :
         MapHas(state.pointers, id) =>
           IF state.pinchStart = Null
           THEN /\ Moved(id, pt).scale = state.scale
                /\ Moved(id, pt).tx = state.tx /\ Moved(id, pt).ty = state.ty
                /\ Moved(id, pt).pinchStart # Null
                /\ Moved(id, pt).pinchStart.dist = ContactDistance(Moved(id, pt))
                /\ Moved(id, pt).pinchStart.scale = state.scale
           ELSE /\ Moved(id, pt).pinchStart = state.pinchStart
                /\ Moved(id, pt).scale =
                     MathMax(minScale, MathMin(maxScale,
                       Mul(state.pinchStart.scale,
                           Quot(ContactDistance(Moved(id, pt)), state.pinchStart.dist))))

\* A pinch anchored at distance 5 and scale 1 has moved to distance 10: the
\* scale is 2.
C10_Witness ==
  /\ Len(state.pointers) = 2 /\ state.pinchStart # Null
  /\ state.pinchStart.dist = 5 /\ state.pinchStart.scale = One
  /\ ContactDistance(state) = 10
  /\ state.scale = <<2, 1>>

\* The inline task of this state, and what has become of it in the next.
InlineTasks(ts) == {t \in ts : t.kind = "inline"}

\* The image the loop of task t is working on, and the same image once its
\* href was rewritten.
CurrentImage(t) == ElementAt(t.root, PathsOf(t.root, "image")[t.i])
Rewritten(t) ==
  ReplaceAt(t.root, PathsOf(t.root, "image")[t.i],
            SetAttribute(CurrentImage(t), Href, DataUrl))

\* C11: every step of the inline loop either leaves the working copy as it
\* was (the image failed) or rewrites the href of the one image in hand to a
\* data URI (it succeeded) and touches nothing else; it then moves on to a
\* later image, or, when none is left, ends by rendering the sanitized
\* working copy and reporting completion, never failure.
C11_InlinePartialFailure ==
  [][\A t \in InlineTasks(tasks) :
       t \notin tasks' =>
         \/ \E n \in InlineTasks(tasks') :
              /\ n.id = t.id
              /\ \/ n.root = t.root /\ n.i = t.i /\ n.stage # t.stage
                 \/ n.i > t.i /\ n.stage = "fetch"
                    /\ (n.root = t.root \/ (t.stage = "read" /\ n.root = Rewritten(t)))
         \/ /\ \A n \in InlineTasks(tasks') : n.id # t.id
            /\ page'.status = "inline done" /\ page'.appended
            /\ \/ state'.svgElement = sanitizeSVGDocument(Document(t.root)).root
               \/ t.stage = "read"
                    /\ state'.svgElement = sanitizeSVGDocument(Document(Rewritten(t))).root
    ]_vars

\* The first image failed and kept its href, the second succeeded and has a
\* data URI, and the operation completed.
C11_Witness ==
  /\ page.status = "inline done" /\ page.appended
  /\ state.svgElement # Null
  /\ LET images == PathsOf(state.svgElement, "image")
     IN  /\ Len(images) = 2
         /\ GetAttribute(ElementAt(state.svgElement, images[1]), Href) = <<"u">>
         /\ GetAttribute(ElementAt(state.svgElement, images[2]), Href) = DataUrl

\* C12: in every reachable state, document loaded or not, what the fit
\* action leaves is translate (0, 0) and scale 1.
C12_FitResets ==
  /\ adjustFit(Cur).s.scale = One
  /\ adjustFit(Cur).s.tx = Zero
  /\ adjustFit(Cur).s.ty = Zero

\* What is to remain of an element that is itself kept: its attributes that
\* are not unsafe, in order and unchanged, and its children that are not
\* script or foreignObject elements, in order, each treated likewise.
RECURSIVE Kept(_)
Kept(el) ==
  LET kids == SelectSeq(el.kids, LAMBDA k : k.tag \notin {"script", "foreignObject"})
  IN  [tag |-> el.tag,
       attrs |-> SelectSeq(el.attrs, LAMBDA a : ~UnsafeAttr(a)),
       kids |-> [i \in 1..Len(kids) |-> Kept(kids[i])]]

\* C13: the sanitized document is the document without its script and
\* foreignObject subtrees and without its unsafe attributes, and is otherwise
\* the same: every other element is in place and every other attribute has
\* its value.
C13_NothingElseAltered ==
  (sanOut # Null /\ sanIn.tag \notin {"script", "foreignObject"})
    => sanOut.root = Kept(sanIn)

\* A document lost a script element and an attribute to the sanitizer and
\* kept another attribute and another child.
C13_Witness ==
  /\ sanOut # Null /\ sanOut.root # Null
  /\ HasTag(sanIn, "script")
  /\ Len(sanOut.root.kids) > 0
  /\ CountAttrs(sanOut.root) > 0
  /\ CountAttrs(sanOut.root) < CountAttrs(sanIn)

\* The contact ids the PointerSet of a state holds.
IdSet(s) == {s.pointers[i].id : i \in 1..Len(s.pointers)}

\* C14: after every step, an empty PointerSet goes with a clear pan flag and
\* fewer than two contacts with no pinch anchor; the PointerSet holds each id
\* once; a contact start adds its id, a contact end or cancel removes it, and
\* nothing else changes which ids are held.
C14_ContactCount ==
  [][/\ state'.pointers = <<>> => ~state'.isPanning
     /\ Len(state'.pointers) < 2 => state'.pinchStart = Null
     /\ Cardinality(IdSet(state')) = Len(state'.pointers)
     /\ \A id \in PointerIds :
          /\ (\E pt \in Points : state' = PointerDownHandler(Cur, id, pt[1], pt[2]).s)
               => IdSet(state') = IdSet(state) \cup {id}
          /\ (state' = PointerUpHandler(Cur, id).s \/ state' = PointerCancelHandler(Cur, id).s)
               => IdSet(state') = IdSet(state) \ {id}
     /\ IdSet(state') # IdSet(state) =>
          \E id \in PointerIds :
            \/ \E pt \in Points : state' = PointerDownHandler(Cur, id, pt[1], pt[2]).s
            \/ state' = PointerUpHandler(Cur, id).s
            \/ state' = PointerCancelHandler(Cur, id).s
    ]_vars

\* A contact started, panned and ended: the PointerSet is empty again, the
\* pan flag is clear and no anchor is held.
C14_Witness ==
  /\ state.pointers = <<>> /\ ~state.isPanning /\ state.pinchStart = Null
  /\ (state.lastX # 0 \/ state.lastY # 0)

\* What may happen between two moves of a sole contact without any contact
\* starting, ending or being cancelled: nothing, or a zoom, wheel or fit.
Between(w) ==
  {w, ZoomInHandler(w), ZoomOutHandler(w), adjustFit(w)}
    \cup {WheelHandler(w, pt[1], pt[2], d) : pt \in Points, d \in DeltaYs}

\* C15: the pan flag is clear whenever the contact count becomes one (from
\* none, or from two when a contact ends or is cancelled); a move of a sole
\* contact with the flag clear only records its position; with the flag set
\* it adds to translate the displacement from the recorded position; and a
\* move that follows another move of the same sole contact adds exactly the
\* displacement between the two positions.
C15_PanAnchoring ==
  /\ Len(state.pointers) = 0 =>
       /\ ~state.isPanning
       /\ \A id \in PointerIds, pt \in Points :
            ~PointerDownHandler(Cur, id, pt[1], pt[2]).s.isPanning
  /\ Len(state.pointers) = 2 =>
       \A id \in PointerIds :
         /\ ~PointerUpHandler(Cur, id).s.isPanning
         /\ ~PointerCancelHandler(Cur, id).s.isPanning
  /\ Len(state.pointers) = 1 =>
       \A pt \in Points :
         LET c == state.pointers[1].id
             first == PointerMoveHandler(Cur, c, pt[1], pt[2])
         IN  /\ first.s.isPanning
             /\ first.s.lastX = pt[1] /\ first.s.lastY = pt[2]
             /\ IF state.isPanning
                THEN /\ first.s.tx = Add(state.tx, Num(pt[1] - state.lastX))
                     /\ first.s.ty = Add(state.ty, Num(pt[2] - state.lastY))
                ELSE first.s.tx = state.tx /\ first.s.ty = state.ty
             /\ \A mid \in Between(first), to \in Points :
                  LET later == PointerMoveHandler(mid, c, to[1], to[2]).s
                  IN  /\ later.tx = Add(mid.s.tx, Num(to[1] - pt[1]))
                      /\ later.ty = Add(mid.s.ty, Num(to[2] - pt[2]))

\* A sole contact went down at (0,0), had its position recorded and moved
\* to (3,4): translate is (3,4).
C15_Witness ==
  /\ Len(state.pointers) = 1 /\ state.isPanning
  /\ state.scale = One /\ state.tx = <<3, 1>> /\ state.ty = <<4, 1>>
  /\ state.lastX = 3 /\ state.lastY = 4
  /\ state.pointers[1].x = 3 /\ state.pointers[1].y = 4

\* The state with its scale multiplied by f and clamped, all else as it is.
Rescaled(f) ==
  [state EXCEPT !.scale = MathMax(minScale, MathMin(maxScale, Mul(state.scale, f)))]

\* C16: in every reachable state the zoom-in button and the keys "+" and "="
\* leave the state with scale = clamp(scale * 1.2), the zoom-out button and
\* the key "-" with scale = clamp(scale / 1.2), and any other key leaves it
\* as it is; translate, the PointerSet, the pan flag, the pinch anchor and
\* the current document are unchanged, and so is the page.
C16_ButtonAndKeyZoom ==
  /\ ZoomInHandler(Cur).s = Rescaled(<<6, 5>>)
  /\ ZoomOutHandler(Cur).s = Rescaled(<<5, 6>>)
  /\ \A key \in Keys :
       KeydownHandler(Cur, key).s =
         IF key \in {"+", "="} THEN Rescaled(<<6, 5>>)
         ELSE IF key = "-" THEN Rescaled(<<5, 6>>)
         ELSE state
  /\ ZoomInHandler(Cur).p = Cur.p /\ ZoomOutHandler(Cur).p = Cur.p
  /\ \A key \in Keys : KeydownHandler(Cur, key).p = Cur.p

\* With a document loaded and a contact panned to (3,4), the view was zoomed
\* in once: scale is 1.2 and translate is still (3,4).
C16_Witness ==
  /\ state.svgElement # Null
  /\ Len(state.pointers) = 1 /\ state.isPanning
  /\ state.scale = <<6, 5>> /\ state.tx = <<3, 1>> /\ state.ty = <<4, 1>>

\* Does an attribute value point at an external resource?
External(v) == Truthy(v) /\ ~StartsWith(v, DataColon)

\* C17: once inlining has completed, an image that was inlined (its href is
\* the data URI) carries no href, plain or XLink-namespaced, that still
\* points at the external resource.
C17_ReferenceReplaced ==
  (page.status = "inline done" /\ state.svgElement # Null) =>
    \A i \in 1..Len(PathsOf(state.svgElement, "image")) :
      LET img == ElementAt(state.svgElement, PathsOf(state.svgElement, "image")[i])
      IN  GetAttribute(img, Href) = DataUrl => ~External(GetAttribute(img, XlinkHref))

\* C18: once clear has run, the display stays empty and there is no current
\* SVG until the user starts a new load: a URL load, a file read or an
\* inline-images run that was in flight when clear ran (the status still reads
\* "cleared" and its task is still pending: each of them writes the status when
\* it starts) does not put a document back when it completes.
InFlightAtClear(t) == page.status = "cleared" /\ t \in tasks /\ t.kind # "clip"
C18_ClearedStaysEmpty ==
  [][(\E t \in tasks : InFlightAtClear(t) /\ t \notin tasks')
       => (page'.container = Null /\ state'.svgElement = Null)]_vars

\* An element without the href attributes of its image elements: what an
\* inlined copy shares with the document it was made from.
RECURSIVE WithoutHrefs(_)
WithoutHrefs(el) ==
  [tag |-> el.tag,
   attrs |-> IF el.tag = "image" THEN RemoveAttribute(el.attrs, Href) ELSE el.attrs,
   kids |-> [i \in 1..Len(el.kids) |-> WithoutHrefs(el.kids[i])]]

\* C19: the document rendered when an inline-images run completes derives
\* from the document that is current at that moment: a document loaded while
\* the run was waiting for an image is not replaced by the inlined copy of
\* the older one.
C19_InlineOfCurrent ==
  [][\A t \in InlineTasks(tasks) :
       (t \notin tasks' /\ page'.appended /\ state.svgElement # Null)
         => WithoutHrefs(state'.svgElement) = WithoutHrefs(state.svgElement)]_vars

\* The view is the identity transform.
IdentityView(s) == s.scale = One /\ s.tx = Zero /\ s.ty = Zero

\* This step is a render, a clear or a fit that resets the view in the middle
\* of a two-contact gesture whose anchor is captured.
ResetInPinch ==
  /\ Len(state.pointers) = 2 /\ state.pinchStart # Null
  /\ state.pinchStart.dist > 0
  /\ state'.pointers = state.pointers /\ state'.pinchStart = state.pinchStart
  /\ IdentityView(state')
  /\ \/ page'.appended
     \/ page'.status = "cleared" /\ state'.svgElement = Null /\ page'.container = Null
     \/ state.svgElement # Null /\ state' = adjustFit(Cur).s /\ page' = adjustFit(Cur).p

\* What a move of contact id to pt makes of the state this step leaves.
MovedNext(id, pt) ==
  PointerMoveHandler([s |-> state', p |-> [page' EXCEPT !.download = Null, !.appended = FALSE]],
                     id, pt[1], pt[2]).s

\* C20: after a render, clear or fit has reset the view while a two-contact
\* gesture holds a captured anchor, the next pinch move that leaves the
\* contacts at the anchor's distance leaves the scale at 1: it does not
\* bring back the scale the anchor captured before the reset.
C20_PinchAfterReset ==
  [][ResetInPinch =>
       \A id \in PointerIds, pt \in Points :
         (MapHas(state.pointers, id)
            /\ ContactDistance(MovedNext(id, pt)) = state.pinchStart.dist)
           => MovedNext(id, pt).scale = One]_vars

====
